---- MODULE Spec2Model ----
(***************************************************************************)
(* A model of AStarPlannerGPP (a_star_planner_gpp.cpp): the planner facade *)
(* that caches the constraint region, projects it onto the costmap on      *)
(* every makePlan call and drives the A* search primitive.                  *)
(*                                                                         *)
(* Geometry.  World and constraint-frame coordinates are integers counted  *)
(* in half cells (the costmap resolution is 2 units, its origin is (0,0)), *)
(* so that the centre of cell i is the odd number 2*i + 1 and a frame can  *)
(* sit half a cell off the grid.  A point and a cell are pairs <<x, y>>.   *)
(* The constraint frame "f" is a translation of the world frame along x.   *)
(***************************************************************************)
EXTENDS Integers, Sequences, FiniteSets

\* ------------------------------------------------------------------ bounds
\* Largest costmap width, in cells.
MaxX == 2
\* Largest offset of the constraint frame from the world origin, in half cells.
MaxShift == 1
\* Longest cell path handed to planToWorld on its own.
MaxPathLen == 7

\* Costmap heights, in cells: resizes change the width.
GridHeights == {2}

\* ------------------------------------------------------- program constants
LETHAL_OBSTACLE == 254
INSCRIBED_INFLATED_OBSTACLE == 253
\* planToWorld's lookahead ("unsigned int size = 5").
LookAhead == 5

VARIABLES
    initialized_,                         \* bool initialized_
    position_constraint_,                 \* the stored PositionConstraint
    goal_positions_in_constraint_frame_,  \* the cached Constraint Region
    costmap,                              \* the costmap behind global_costmap_ros_
    tf,                                   \* the transform provider behind tf_
    planner_,                             \* the search primitive's dimensions
    call                                  \* the last public call: arguments, outputs, what it touched

vars == <<initialized_, position_constraint_, goal_positions_in_constraint_frame_,
          costmap, tf, planner_, call>>

\* ---------------------------------------------------------- small helpers
Range(s) == {s[k] : k \in 1..Len(s)}

Reverse(s) == [k \in 1..Len(s) |-> s[Len(s) + 1 - k]]

RECURSIVE Filter(_, _)
\* The subsequence of s whose elements are in the set keep, order kept.
Filter(s, keep) ==
    IF s = <<>> THEN <<>>
    ELSE IF Head(s) \in keep THEN <<Head(s)>> \o Filter(Tail(s), keep)
    ELSE Filter(Tail(s), keep)

\* ------------------------------------------------------------- the costmap
\* Cells of a w x h grid.
CellsOf(w, h) == (0..(w - 1)) \X (0..(h - 1))

\* Cost arrays of a w x h grid: all free, or one cell carrying a sentinel.
CostArrays(w, h) ==
    {[c \in CellsOf(w, h) |-> 0]} \cup
    {[c \in CellsOf(w, h) |-> IF c = o THEN v ELSE 0] :
        o \in CellsOf(w, h), v \in {LETHAL_OBSTACLE, INSCRIBED_INFLATED_OBSTACLE}}

Costmaps ==
    UNION {{[sx |-> w, sy |-> h, cost |-> a] : a \in CostArrays(w, h)} :
              w \in 1..MaxX, h \in GridHeights}

\* Costmap2D::worldToMap: fails left of / below the origin and beyond the size.
WorldToMapOk(p) ==
    /\ p[1] >= 0
    /\ p[2] >= 0
    /\ p[1] \div 2 < costmap.sx
    /\ p[2] \div 2 < costmap.sy

WorldToMap(p) == <<p[1] \div 2, p[2] \div 2>>

\* Costmap2D::mapToWorld: the centre of the cell.
MapToWorld(c) == <<2 * c[1] + 1, 2 * c[2] + 1>>

GetCost(c) == costmap.cost[c]

\* ------------------------------------------------- the transform provider
\* tf lookupTransform between the global frame and `frame` throws when the
\* frame id is empty or the provider has no transform for it.
LookupOk(frame) == frame # "" /\ tf.ok

\* The transform looked up at line 116 (target: constraint frame, source:
\* global frame), applied to a world point.
WorldToConstraint(pw) == <<pw[1] - tf.dx, pw[2]>>

\* A transform from the constraint frame to the world with x offset d,
\* applied to a constraint-frame point.
ApplyOffset(d, pc) == <<pc[1] + d, pc[2]>>

\* ---------------------------------------------------- constraint evaluator
\* ConstraintEvaluator::init: fails on a malformed specification.
CeInit(spec) == spec \in {"disc", "half"}

\* ConstraintEvaluator::evaluate, on a point of the constraint frame.
CeEvaluate(spec, p) ==
    CASE spec = "disc" -> p[1] * p[1] + p[2] * p[2] <= 10
      [] spec = "half" -> p[1] >= 2
      [] OTHER -> FALSE

\* ------------------------------------------------------------- requests
\* The constraints a caller passes: the "nothing requested" sentinel, two
\* well-formed constraints in frame "f" and a malformed one.
Requests ==
    {[frame |-> "", constraint |-> ""],
     [frame |-> "f", constraint |-> "disc"],
     [frame |-> "f", constraint |-> "half"],
     [frame |-> "f", constraint |-> "bad"]}

\* Start positions (world): the centres of cells (0,0) and (1,0); the second
\* is off a costmap one cell wide.
Starts == {<<1, 1>>, <<3, 1>>}

\* A default-constructed PositionConstraint.
NoConstraint == [frame |-> "", constraint |-> ""]

\* geometry_msgs::Quaternion as left by the default constructor.
DefaultOrientation == [set |-> FALSE, dx |-> 0, dy |-> 0]

\* What the caller's vectors hold when makePlan is entered: the result of
\* some earlier request.
CallerVectors ==
    {[plan |-> <<[x |-> 1, y |-> 1, o |-> DefaultOrientation]>>, goals |-> <<<<1, 1>>>>]}

\* What an uninitialized tf::StampedTransform can hold when it is applied
\* after a failed lookup: any offset, among them one that throws every
\* point off the map.
GarbageOffsets == (0..MaxShift) \cup {-100}

\* ------------------------------------------------------ constraintChanged
\* constraintChanged (declared in the header): value inequality of either field.
ConstraintChanged(pc) ==
    \/ position_constraint_.frame # pc.frame
    \/ position_constraint_.constraint # pc.constraint

\* ----------------------------- updateConstraintPositionsInConstraintFrame
\* The cells in the order of the two nested loops: i (x) outer, j (y) inner.
SweepCells ==
    [k \in 1..(costmap.sx * costmap.sy) |->
        <<(k - 1) \div costmap.sy, (k - 1) % costmap.sy>>]

\* The loop of lines 130-143: the cell centres, taken to the constraint
\* frame, that satisfy the constraint.
SweepRegion(spec) ==
    LET pts == [k \in 1..Len(SweepCells) |-> WorldToConstraint(MapToWorld(SweepCells[k]))]
    IN  Filter(pts, {p \in Range(pts) : CeEvaluate(spec, p)})

\* The member is cleared first (line 111); then the lookup, then init, then the sweep.
UpdateConstraintPositionsInConstraintFrame(pc) ==
    IF ~LookupOk(pc.frame)
    THEN [ok |-> FALSE, region |-> <<>>, lookupFailed |-> TRUE]
    ELSE IF ~CeInit(pc.constraint)
    THEN [ok |-> FALSE, region |-> <<>>, lookupFailed |-> FALSE]
    ELSE [ok |-> TRUE, region |-> SweepRegion(pc.constraint), lookupFailed |-> FALSE]

\* --------------------------------------------- calculateMapConstraintArea
\* KeepsGoal without the cost test of lines 168-171.
KeepsGoal_IgnoresCost(pw) == WorldToMapOk(pw)

\* Whether the loop body of lines 162-176 keeps the world point pw.
KeepsGoal(pw) ==
    /\ WorldToMapOk(pw)
    /\ GetCost(WorldToMap(pw)) # INSCRIBED_INFLATED_OBSTACLE
    /\ GetCost(WorldToMap(pw)) # LETHAL_OBSTACLE

\* The loop over the cached region with the transform of offset d: the kept
\* world points, in the order of the region.
CalculateMapConstraintArea(region, d) ==
    LET pws == [k \in 1..Len(region) |-> ApplyOffset(d, region[k])]
    IN  Filter(pws, {pw \in Range(pws) : KeepsGoal(pw)})

\* mx / my of the kept points.
CellsOfPoints(pws) == [k \in 1..Len(pws) |-> WorldToMap(pws[k])]

\* --------------------------------------------------- the search primitive
Toward(u, v, k) == IF v >= u THEN u + k ELSE u - k

Abs(n) == IF n >= 0 THEN n ELSE -n

\* The cells from a to b, along x first and then along y.
LPath(a, b) ==
    LET ax == Abs(b[1] - a[1])
        ay == Abs(b[2] - a[2])
    IN  [k \in 1..(ax + ay + 1) |->
            IF k - 1 <= ax THEN <<Toward(a[1], b[1], k - 1), a[2]>>
            ELSE <<b[1], Toward(a[2], b[2], k - 1 - ax)>>]

Passable(c) == GetCost(c) \notin {LETHAL_OBSTACLE, INSCRIBED_INFLATED_OBSTACLE}

\* AStarPlanner::plan: what the primitive may return: the empty path, or
\* a cell path from `start` to the first of `goals` it can reach.
AStarPlan(goals, start) ==
    LET ok == {k \in 1..Len(goals) : \A c \in Range(LPath(start, goals[k])) : Passable(c)}
    IN  {<<>>} \cup {LPath(start, goals[k]) : k \in {m \in ok : \A n \in ok : m <= n}}

\* ------------------------------------------------------------ planToWorld
RECURSIVE Gcd(_, _)
Gcd(a, b) == IF b = 0 THEN a ELSE Gcd(b, a % b)

\* tf::createQuaternionMsgFromYaw(atan2(dy, dx)): the direction of (dx, dy);
\* atan2(0, 0) is 0, the direction of +x.
Heading(dx, dy) ==
    IF dx = 0 /\ dy = 0 THEN [set |-> TRUE, dx |-> 1, dy |-> 0]
    ELSE LET g == Gcd(Abs(dx), Abs(dy))
         IN  [set |-> TRUE, dx |-> dx \div g, dy |-> dy \div g]

\* OrientationAt without the branch of lines 204-207: a pose with no cell
\* to look ahead to keeps the default orientation.
OrientationAt_NoReuse(path, i) ==
    IF (i - 1) + LookAhead < Len(path)
    THEN Heading(MapToWorld(path[i + LookAhead])[1] - MapToWorld(path[i])[1],
                 MapToWorld(path[i + LookAhead])[2] - MapToWorld(path[i])[2])
    ELSE DefaultOrientation

RECURSIVE OrientationAt(_, _)
\* The orientation of pose i (1-based) of the path, as lines 196-207 leave it.
OrientationAt(path, i) ==
    IF (i - 1) + LookAhead < Len(path)
    THEN Heading(MapToWorld(path[i + LookAhead])[1] - MapToWorld(path[i])[1],
                 MapToWorld(path[i + LookAhead])[2] - MapToWorld(path[i])[2])
    ELSE IF Len(path) > LookAhead
    THEN OrientationAt(path, i - 1)
    ELSE DefaultOrientation

PlanToWorld(path) ==
    [i \in 1..Len(path) |->
        [x |-> MapToWorld(path[i])[1], y |-> MapToWorld(path[i])[2],
         o |-> OrientationAt(path, i)]]

\* ------------------------------------------------------- the call record
\* What the model remembers of the last public call: its arguments, what
\* the caller's vectors held on entry and hold on return, and what the call
\* touched on its way.
IdleCall ==
    [op |-> "none", ret |-> FALSE, exit |-> "none",
     start |-> <<0, 0>>, pc |-> NoConstraint,
     plan_in |-> <<>>, goals_in |-> <<>>,          \* caller's vectors on entry
     plan |-> <<>>, goal_positions |-> <<>>,       \* caller's vectors on return
     gridReads |-> FALSE,                          \* the costmap was accessed
     nullDeref |-> FALSE,                          \* the unset costmap pointer was dereferenced
     lookups |-> 0,                                \* lookupTransform calls
     rebuilds |-> 0,                               \* region rebuild calls
     rebuildLookupFailed |-> FALSE,
     projected |-> FALSE,                          \* calculateMapConstraintArea ran
     projLookupFailed |-> FALSE,
     goal_cells |-> <<>>,                          \* mx_goal / my_goal after the projection
     synced |-> FALSE,                             \* resize and setCostmap were called
     resized |-> FALSE,                            \* that resize changed the primitive's size
     searches |-> <<>>,                            \* the plan() invocations, in order, with their results
     cell_path |-> <<>>,                           \* plan_xs / plan_ys handed to planToWorld
     repeatOf |-> "none"]                          \* history: see RepeatOf

\* History: how far the call right before this one got, when it was a
\* makePlan with the same start and constraint and nothing happened in
\* between: it failed in the region rebuild, it reached the projection, or
\* it returned before either; "none" otherwise.
RepeatOf(start, pc) ==
    IF call.op = "makePlan" /\ call.start = start /\ call.pc = pc
    THEN IF call.exit = "rebuild" THEN "rebuild"
         ELSE IF call.projected THEN "projected"
         ELSE "early"
    ELSE "none"

\* An outcome of makePlan: the members after the call and the call record.
Outcome(stored, region, planner, c) ==
    [stored |-> stored, region |-> region, planner |-> planner, call |-> c]

\* ---------------------------------------------------- makePlan, by steps
\* Each step yields the set of outcomes the rest of the call can have: the
\* call is deterministic but for the content of an uninitialized transform
\* and for what the search primitive returns.  a holds the arguments (start,
\* pc) and the caller's vectors on entry (vin); c is the call record so far.

\* MakePlanFinish without the std::reverse of lines 88-89.
MakePlanFinish_NoReverse(stored, region, c, goals, startCell, first, second) ==
    LET dims == [nx |-> costmap.sx, ny |-> costmap.sy]
        firstLog == [goals |-> goals, start |-> startCell, reversed |-> FALSE, dims |-> dims,
                     result |-> first]
        seed == goals[(Len(goals) \div 2) + 1]
        secondLog == [goals |-> <<startCell>>, start |-> seed, reversed |-> TRUE, dims |-> dims,
                      result |-> second]
        path == IF first = <<>> THEN second ELSE first
        log == IF first = <<>> THEN <<firstLog, secondLog>> ELSE <<firstLog>>
        world == PlanToWorld(path)
    IN  Outcome(stored, region, dims,
                [c EXCEPT !.synced = TRUE, !.resized = (planner_ # [nx |-> costmap.sx, ny |-> costmap.sy]),
                          !.searches = log, !.cell_path = path, !.plan = world,
                          !.ret = (world # <<>>),
                          !.exit = IF world = <<>> THEN "noplan" ELSE "ok"])

\* MakePlanFinish with a return value that does not look at the plan.
MakePlanFinish_AlwaysTrue(stored, region, c, goals, startCell, first, second) ==
    LET dims == [nx |-> costmap.sx, ny |-> costmap.sy]
        firstLog == [goals |-> goals, start |-> startCell, reversed |-> FALSE, dims |-> dims,
                     result |-> first]
        seed == goals[(Len(goals) \div 2) + 1]
        secondLog == [goals |-> <<startCell>>, start |-> seed, reversed |-> TRUE, dims |-> dims,
                      result |-> second]
        path == IF first = <<>> THEN Reverse(second) ELSE first
        log == IF first = <<>> THEN <<firstLog, secondLog>> ELSE <<firstLog>>
        world == PlanToWorld(path)
    IN  Outcome(stored, region, dims,
                [c EXCEPT !.synced = TRUE, !.resized = (planner_ # [nx |-> costmap.sx, ny |-> costmap.sy]),
                          !.searches = log, !.cell_path = path, !.plan = world,
                          !.ret = TRUE,
                          !.exit = IF world = <<>> THEN "noplan" ELSE "ok"])

\* MakePlanFinish without lines 70-71: the primitive keeps the size it had.
MakePlanFinish_NoResize(stored, region, c, goals, startCell, first, second) ==
    LET dims == planner_
        firstLog == [goals |-> goals, start |-> startCell, reversed |-> FALSE, dims |-> dims,
                     result |-> first]
        seed == goals[(Len(goals) \div 2) + 1]
        secondLog == [goals |-> <<startCell>>, start |-> seed, reversed |-> TRUE, dims |-> dims,
                      result |-> second]
        path == IF first = <<>> THEN Reverse(second) ELSE first
        log == IF first = <<>> THEN <<firstLog, secondLog>> ELSE <<firstLog>>
        world == PlanToWorld(path)
    IN  Outcome(stored, region, dims,
                [c EXCEPT !.searches = log, !.cell_path = path, !.plan = world,
                          !.ret = (world # <<>>),
                          !.exit = IF world = <<>> THEN "noplan" ELSE "ok"])

\* MakePlanFinish with the fallback started from the first goal cell.
MakePlanFinish_SeedFirst(stored, region, c, goals, startCell, first, second) ==
    LET dims == [nx |-> costmap.sx, ny |-> costmap.sy]
        firstLog == [goals |-> goals, start |-> startCell, reversed |-> FALSE, dims |-> dims,
                     result |-> first]
        seed == goals[1]
        secondLog == [goals |-> <<startCell>>, start |-> seed, reversed |-> TRUE, dims |-> dims,
                      result |-> second]
        path == IF first = <<>> THEN Reverse(second) ELSE first
        log == IF first = <<>> THEN <<firstLog, secondLog>> ELSE <<firstLog>>
        world == PlanToWorld(path)
    IN  Outcome(stored, region, dims,
                [c EXCEPT !.synced = TRUE, !.resized = (planner_ # [nx |-> costmap.sx, ny |-> costmap.sy]),
                          !.searches = log, !.cell_path = path, !.plan = world,
                          !.ret = (world # <<>>),
                          !.exit = IF world = <<>> THEN "noplan" ELSE "ok"])

\* Lines 76-103, given the two searches' results: fall back, materialize.
MakePlanFinish(stored, region, c, goals, startCell, first, second) ==
    LET dims == [nx |-> costmap.sx, ny |-> costmap.sy]
        firstLog == [goals |-> goals, start |-> startCell, reversed |-> FALSE, dims |-> dims,
                     result |-> first]
        seed == goals[(Len(goals) \div 2) + 1]
        secondLog == [goals |-> <<startCell>>, start |-> seed, reversed |-> TRUE, dims |-> dims,
                      result |-> second]
        path == IF first = <<>> THEN Reverse(second) ELSE first
        log == IF first = <<>> THEN <<firstLog, secondLog>> ELSE <<firstLog>>
        world == PlanToWorld(path)
    IN  Outcome(stored, region, dims,
                [c EXCEPT !.synced = TRUE, !.resized = (planner_ # [nx |-> costmap.sx, ny |-> costmap.sy]),
                          !.searches = log, !.cell_path = path, !.plan = world,
                          !.ret = (world # <<>>),
                          !.exit = IF world = <<>> THEN "noplan" ELSE "ok"])

\* Lines 66-103: sync the primitive, search, fall back, materialize.
MakePlanSearch(a, stored, region, c, pws) ==
    LET goals == CellsOfPoints(pws)
        startCell == WorldToMap(a.start)
        seed == goals[(Len(goals) \div 2) + 1]
    IN  UNION {IF first # <<>>
               THEN {MakePlanFinish(stored, region, c, goals, startCell, first, <<>>)}
               ELSE {MakePlanFinish(stored, region, c, goals, startCell, first, second) :
                        second \in AStarPlan(<<startCell>>, seed)} :
               first \in AStarPlan(goals, startCell)}

\* MakePlanProjected with the emptiness test of line 61 placed after the
\* primitive was synced and the forward search was run.
MakePlanProjected_SearchesFirst(a, stored, region, c, d) ==
    LET pws == CalculateMapConstraintArea(region, d)
        c2 == [c EXCEPT !.goal_positions = pws, !.goal_cells = CellsOfPoints(pws)]
        dims == [nx |-> costmap.sx, ny |-> costmap.sy]
    IN  IF pws = <<>>
        THEN {Outcome(stored, region, dims,
                      [c2 EXCEPT !.synced = TRUE, !.resized = (planner_ # [nx |-> costmap.sx, ny |-> costmap.sy]),
                                 !.searches = <<[goals |-> <<>>, start |-> WorldToMap(a.start),
                                                 reversed |-> FALSE, dims |-> dims, result |-> <<>>]>>,
                                 !.exit = "nogoal"])}
        ELSE MakePlanSearch(a, stored, region, c2, pws)

\* MakePlanProjected with the projected points written back to the cache.
MakePlanProjected_CachesProjection(a, stored, region, c, d) ==
    LET pws == CalculateMapConstraintArea(region, d)
        c2 == [c EXCEPT !.goal_positions = pws, !.goal_cells = CellsOfPoints(pws)]
    IN  IF pws = <<>>
        THEN {Outcome(stored, pws, planner_, [c2 EXCEPT !.exit = "nogoal"])}
        ELSE MakePlanSearch(a, stored, pws, c2, pws)

\* Lines 57-64, with the transform of offset d applied to the region.
MakePlanProjected(a, stored, region, c, d) ==
    LET pws == CalculateMapConstraintArea(region, d)
        c2 == [c EXCEPT !.goal_positions = pws, !.goal_cells = CellsOfPoints(pws)]
    IN  IF pws = <<>>
        THEN {Outcome(stored, region, planner_, [c2 EXCEPT !.exit = "nogoal"])}
        ELSE MakePlanSearch(a, stored, region, c2, pws)

\* MakePlanProject with a catch block that drops the cached region.
MakePlanProject_ForgetsOnFailure(a, stored, region, c) ==
    LET found == LookupOk(stored.frame)
        c2 == [c EXCEPT !.projected = TRUE, !.lookups = @ + 1, !.projLookupFailed = ~found]
    IN  IF found
        THEN MakePlanProjected(a, stored, region, c2, tf.dx)
        ELSE {Outcome(stored, <<>>, planner_, [c2 EXCEPT !.exit = "nogoal"])}

\* Lines 57-64: project the region; after a failed lookup the transform
\* applied is the uninitialized one.
MakePlanProject(a, stored, region, c) ==
    LET found == LookupOk(stored.frame)
        c2 == [c EXCEPT !.projected = TRUE, !.lookups = @ + 1, !.projLookupFailed = ~found]
    IN  UNION {MakePlanProjected(a, stored, region, c2, d) :
                  d \in IF found THEN {tf.dx} ELSE GarbageOffsets}

\* MakePlanRegion without the assignment of line 50.
MakePlanRegion_NoStore(a, c) ==
    IF ConstraintChanged(a.pc)
    THEN LET upd == UpdateConstraintPositionsInConstraintFrame(a.pc)
             c2 == [c EXCEPT !.rebuilds = 1, !.lookups = 1,
                             !.rebuildLookupFailed = upd.lookupFailed]
         IN  IF upd.ok
             THEN MakePlanProject(a, position_constraint_, upd.region, c2)
             ELSE {Outcome(position_constraint_, upd.region, planner_,
                           [c2 EXCEPT !.exit = "rebuild"])}
    ELSE MakePlanProject(a, position_constraint_, goal_positions_in_constraint_frame_, c)

\* Lines 47-55: rebuild the region when the constraint changed.
MakePlanRegion(a, c) ==
    IF ConstraintChanged(a.pc)
    THEN LET upd == UpdateConstraintPositionsInConstraintFrame(a.pc)
             c2 == [c EXCEPT !.rebuilds = 1, !.lookups = 1,
                             !.rebuildLookupFailed = upd.lookupFailed]
         IN  IF upd.ok
             THEN MakePlanProject(a, a.pc, upd.region, c2)
             ELSE {Outcome(position_constraint_, upd.region, planner_,
                           [c2 EXCEPT !.exit = "rebuild"])}
    ELSE MakePlanProject(a, position_constraint_, goal_positions_in_constraint_frame_, c)

\* MakePlanStart with the start test placed after the region step.
MakePlanStart_ChecksLate(a, c) ==
    IF ~WorldToMapOk(a.start)
    THEN LET changed == ConstraintChanged(a.pc)
             upd == UpdateConstraintPositionsInConstraintFrame(a.pc)
         IN  {Outcome(IF changed /\ upd.ok THEN a.pc ELSE position_constraint_,
                      IF changed THEN upd.region ELSE goal_positions_in_constraint_frame_,
                      planner_,
                      [c EXCEPT !.gridReads = TRUE, !.exit = "offmap",
                                !.rebuilds = IF changed THEN 1 ELSE 0,
                                !.lookups = IF changed THEN 1 ELSE 0,
                                !.rebuildLookupFailed = changed /\ upd.lookupFailed])}
    ELSE MakePlanRegion(a, [c EXCEPT !.gridReads = TRUE])

\* Lines 41-45: the start must map onto the costmap.
MakePlanStart(a, c) ==
    IF ~WorldToMapOk(a.start)
    THEN {Outcome(position_constraint_, goal_positions_in_constraint_frame_, planner_,
                  [c EXCEPT !.gridReads = TRUE, !.exit = "offmap"])}
    ELSE MakePlanRegion(a, [c EXCEPT !.gridReads = TRUE])

\* Line 39: the "nothing specified" test.
NothingSpecified(pc) == pc.frame = "" /\ pc.constraint = ""

\* MakePlanReady without the test of line 39.
MakePlanReady_NoSentinelTest(a, c) ==
    MakePlanStart(a, [c EXCEPT !.plan = <<>>, !.goal_positions = <<>>])

\* Lines 34-39: clear the caller's vectors, then the "nothing specified" test.
MakePlanReady(a, c) ==
    LET c2 == [c EXCEPT !.plan = <<>>, !.goal_positions = <<>>]
    IN  IF NothingSpecified(a.pc)
        THEN {Outcome(position_constraint_, goal_positions_in_constraint_frame_, planner_,
                      [c2 EXCEPT !.exit = "nothing"])}
        ELSE MakePlanStart(a, c2)

\* MakePlanOutcomes with the vectors cleared before the test of line 32.
MakePlanOutcomes_ClearsFirst(a) ==
    LET c == [IdleCall EXCEPT !.op = "makePlan", !.start = a.start, !.pc = a.pc,
                              !.repeatOf = RepeatOf(a.start, a.pc),
                              !.plan_in = a.vin.plan, !.goals_in = a.vin.goals]
    IN  IF ~initialized_
        THEN {Outcome(position_constraint_, goal_positions_in_constraint_frame_, planner_,
                      [c EXCEPT !.exit = "uninit"])}
        ELSE MakePlanReady(a, c)

\* Line 32 and on: the whole of makePlan.
MakePlanOutcomes(a) ==
    LET c == [IdleCall EXCEPT !.op = "makePlan", !.start = a.start, !.pc = a.pc,
                              !.repeatOf = RepeatOf(a.start, a.pc),
                              !.plan_in = a.vin.plan, !.goals_in = a.vin.goals,
                              !.plan = a.vin.plan, !.goal_positions = a.vin.goals]
    IN  IF ~initialized_
        THEN {Outcome(position_constraint_, goal_positions_in_constraint_frame_, planner_,
                      [c EXCEPT !.exit = "uninit"])}
        ELSE MakePlanReady(a, c)

\* -------------------------------------------------------------- checkPlan
Pose(x, y) == [x |-> x, y |-> y, o |-> DefaultOrientation]

\* The paths a caller hands to checkPlan: the empty one; a pose left of the
\* origin followed by one in cell (1,1), which is off a costmap one cell
\* wide; poses in cells (0,0) and (0,1).
CheckPaths ==
    {<<>>,
     <<Pose(-1, 1), Pose(3, 3)>>,
     <<Pose(1, 1), Pose(1, 3)>>}

\* global_costmap_ros_ is NULL from the constructor (line 10) until
\* initialize stores the costmap (line 15), together with initialized_.
GlobalCostmapIsNull == ~initialized_

\* CheckPlanReturn with a pose that is off the costmap counted as a hit.
CheckPlanReturn_OffGridInvalid(path) ==
    \A i \in 1..Len(path) :
        LET p == <<path[i].x, path[i].y>>
        IN  /\ WorldToMapOk(p)
            /\ GetCost(WorldToMap(p)) # INSCRIBED_INFLATED_OBSTACLE
            /\ GetCost(WorldToMap(p)) # LETHAL_OBSTACLE

\* Lines 216-226: false at the first pose that maps onto the costmap and
\* into a cell of inscribed or lethal cost; true when the loop runs out.
CheckPlanReturn(path) ==
    \A i \in 1..Len(path) :
        LET p == <<path[i].x, path[i].y>>
        IN  WorldToMapOk(p) =>
                /\ GetCost(WorldToMap(p)) # INSCRIBED_INFLATED_OBSTACLE
                /\ GetCost(WorldToMap(p)) # LETHAL_OBSTACLE

\* The whole of checkPlan.  It does not test initialized_: with a path of
\* at least one pose the loop body dereferences global_costmap_ros_, and
\* when that is still NULL the behaviour is undefined (the call faults, or
\* returns either value).
CheckPlanOutcomes(path) ==
    LET c == [IdleCall EXCEPT !.op = "checkPlan", !.plan_in = path, !.plan = path]
    IN  IF path = <<>>
        THEN {[c EXCEPT !.ret = TRUE, !.exit = "ok"]}
        ELSE IF GlobalCostmapIsNull
        THEN {[c EXCEPT !.nullDeref = TRUE, !.ret = b, !.exit = "undefined"] : b \in BOOLEAN}
        ELSE {[c EXCEPT !.gridReads = TRUE, !.ret = CheckPlanReturn(path), !.exit = "ok"]}

\* ------------------------------------------------------------ the actions
Tfs == [ok : BOOLEAN, dx : 0..MaxShift]

NoPlanner == [nx |-> 0, ny |-> 0]

\* initialized_ as the base class's constructor leaves it (the constructor
\* of line 10 does not mention it): the planner starts UNINITIALIZED.
ConstructedInitialized == FALSE

\* The planner as constructed (line 10), with some costmap and transform
\* provider around it.
Init ==
    /\ initialized_ = ConstructedInitialized
    /\ position_constraint_ = NoConstraint
    /\ goal_positions_in_constraint_frame_ = <<>>
    /\ costmap \in Costmaps
    /\ tf \in Tfs
    /\ planner_ = NoPlanner
    /\ call = IdleCall

\* initialize: keep the collaborators, create the primitive with the
\* costmap's current size.
Initialize ==
    /\ ~initialized_
    /\ initialized_' = TRUE
    /\ planner_' = [nx |-> costmap.sx, ny |-> costmap.sy]
    /\ call' = [IdleCall EXCEPT !.op = "initialize"]
    /\ UNCHANGED <<position_constraint_, goal_positions_in_constraint_frame_, costmap, tf>>

MakePlan ==
    \E start \in Starts, pc \in Requests, vin \in CallerVectors :
        \E r \in MakePlanOutcomes([start |-> start, pc |-> pc, vin |-> vin]) :
            /\ position_constraint_' = r.stored
            /\ goal_positions_in_constraint_frame_' = r.region
            /\ planner_' = r.planner
            /\ call' = r.call
            /\ UNCHANGED <<initialized_, costmap, tf>>

CheckPlan ==
    \E path \in CheckPaths :
        \E r \in CheckPlanOutcomes(path) :
            /\ call' = r
            /\ UNCHANGED <<initialized_, position_constraint_,
                           goal_positions_in_constraint_frame_, costmap, tf, planner_>>

\* The costmap is resized (and comes up free), or gets new contents,
\* between two calls.
GridChange ==
    \E m \in Costmaps :
        /\ m # costmap
        /\ \/ m.sx = costmap.sx /\ m.sy = costmap.sy
           \/ \A cell \in CellsOf(m.sx, m.sy) : m.cost[cell] = 0
        /\ costmap' = m
        /\ call' = [IdleCall EXCEPT !.op = "env"]
        /\ UNCHANGED <<initialized_, position_constraint_,
                       goal_positions_in_constraint_frame_, tf, planner_>>

\* The constraint frame moves, or its transform is lost or restored.
TfChange ==
    \E t \in Tfs :
        /\ t # tf
        /\ tf' = t
        /\ call' = [IdleCall EXCEPT !.op = "env"]
        /\ UNCHANGED <<initialized_, position_constraint_,
                       goal_positions_in_constraint_frame_, costmap, planner_>>

Next == Initialize \/ MakePlan \/ CheckPlan \/ GridChange \/ TfChange

Spec == Init /\ [][Next]_vars

\* ------------------------------------------- planToWorld on its own
\* A second specification for planToWorld as a function of the cell path:
\* the paths of the main specification are too short to have a tail.  The
\* cell paths start at cell (0,0) and go on by steps to the right, up, or
\* both, as a search on a free costmap of MaxPathLen by MaxPathLen cells
\* returns them.
PathSteps == {<<1, 0>>, <<0, 1>>, <<1, 1>>}

RECURSIVE CellPaths(_)
CellPaths(n) ==
    IF n = 0 THEN {<<>>}
    ELSE IF n = 1 THEN {<<<<0, 0>>>>}
    ELSE {Append(p, <<p[Len(p)][1] + d[1], p[Len(p)][2] + d[2]>>) :
             p \in CellPaths(n - 1), d \in PathSteps}

AllCellPaths == UNION {CellPaths(n) : n \in 0..MaxPathLen}

\* An initialized planner on that costmap, about to materialize a cell path.
PlanToWorldInit ==
    /\ initialized_ = TRUE
    /\ position_constraint_ = NoConstraint
    /\ goal_positions_in_constraint_frame_ = <<>>
    /\ costmap = [sx |-> MaxPathLen, sy |-> MaxPathLen,
                  cost |-> [c \in CellsOf(MaxPathLen, MaxPathLen) |-> 0]]
    /\ tf = [ok |-> TRUE, dx |-> 0]
    /\ planner_ = [nx |-> MaxPathLen, ny |-> MaxPathLen]
    /\ call \in {[IdleCall EXCEPT !.op = "search", !.cell_path = p] : p \in AllCellPaths}

\* Line 94: planToWorld(plan_xs, plan_ys, plan).
PlanToWorldCall ==
    /\ call.op = "search"
    /\ call' = [call EXCEPT !.op = "planToWorld", !.plan = PlanToWorld(call.cell_path)]
    /\ UNCHANGED <<initialized_, position_constraint_,
                   goal_positions_in_constraint_frame_, costmap, tf, planner_>>

PlanToWorldNext == PlanToWorldCall

PlanToWorldSpec == PlanToWorldInit /\ [][PlanToWorldNext]_vars

\* ---------------------------------------------------------------- claims
\* Shorthands: the step is a makePlan call; the members it may not touch.
IsMakePlan == call'.op = "makePlan"

CacheKept ==
    /\ goal_positions_in_constraint_frame_' = goal_positions_in_constraint_frame_
    /\ position_constraint_' = position_constraint_

\* The call record of a call that looked up no transform, rebuilt nothing
\* and left the search primitive alone.
Untouched(c) ==
    /\ c.lookups = 0
    /\ c.rebuilds = 0
    /\ ~c.synced
    /\ c.searches = <<>>

\* C1: a makePlan call whose region rebuild fails in the transform lookup
\* leaves the cached region as it was before the call.
C1_FailedRebuildKeepsRegion ==
    [][(IsMakePlan /\ call'.rebuildLookupFailed)
          => goal_positions_in_constraint_frame_' = goal_positions_in_constraint_frame_]_vars

\* C2: in a makePlan call that reaches the projection (with a successful
\* lookup, so that the frame's position is known, and a non-empty region
\* cached), the goal cells are exactly the cells of the current costmap whose centre satisfies the
\* stored constraint in the constraint frame and whose cost is no sentinel.
C2_GoalCellSetIsExact ==
    (/\ call.op = "makePlan"
     /\ call.projected
     /\ ~call.projLookupFailed
     /\ goal_positions_in_constraint_frame_ # <<>>)
        => Range(call.goal_cells) =
              {cell \in CellsOf(costmap.sx, costmap.sy) :
                  /\ CeEvaluate(position_constraint_.constraint,
                                WorldToConstraint(MapToWorld(cell)))
                  /\ GetCost(cell) # LETHAL_OBSTACLE
                  /\ GetCost(cell) # INSCRIBED_INFLATED_OBSTACLE}

\* C3: when the transform lookup of the projection fails, the goal cell set
\* of the call is empty, makePlan returns false and the search primitive is
\* not invoked.
C3_FailedProjectionIsEmpty ==
    (call.op = "makePlan" /\ call.projLookupFailed)
        => /\ call.goal_cells = <<>>
           /\ ~call.ret
           /\ ~call.synced
           /\ call.searches = <<>>

\* C4: a makePlan call whose projection lookup fails leaves the cached
\* region and the stored constraint as they were; and a makePlan call with
\* the stored constraint, a start on the map and the transform available
\* (hence also the call after such a failure, the transform restored)
\* rebuilds nothing and gets the projection of that very region.
C4_FailedProjectionKeepsCache ==
    [][/\ (IsMakePlan /\ call'.projLookupFailed) => CacheKept
       /\ (/\ IsMakePlan
           /\ initialized_
           /\ call'.pc = position_constraint_
           /\ ~NothingSpecified(call'.pc)
           /\ WorldToMapOk(call'.start)
           /\ LookupOk(call'.pc.frame))
          => /\ call'.rebuilds = 0
             /\ call'.projected
             /\ CacheKept
             /\ call'.goal_positions =
                   CalculateMapConstraintArea(goal_positions_in_constraint_frame_, tf.dx)
             /\ call'.goal_cells = CellsOfPoints(call'.goal_positions)]_vars

\* C4 witness: a call failed in the projection lookup with a non-empty
\* region cached, and the region is still there.
C4_Witness ==
    /\ call.op = "makePlan"
    /\ call.projLookupFailed
    /\ goal_positions_in_constraint_frame_ # <<>>
    /\ position_constraint_ = call.pc

\* C5 as stated: the second of two consecutive makePlan calls with the same
\* non-empty constraint and the same start (a makePlan call leaves costmap
\* and transforms as they are) does not invoke the region rebuild.
C5_RepeatNeverRebuilds ==
    (call.op = "makePlan" /\ call.repeatOf # "none" /\ ~NothingSpecified(call.pc))
        => call.rebuilds = 0

\* C5 as amended: unless the first call's region rebuild failed, the second
\* of two such calls does not invoke the region rebuild; and if the first
\* reached the projection, the second does too.
C5_RepeatAfterNoFailedRebuild ==
    (/\ call.op = "makePlan"
     /\ call.repeatOf \notin {"none", "rebuild"}
     /\ ~NothingSpecified(call.pc))
        => /\ call.rebuilds = 0
           /\ call.repeatOf = "projected" => call.projected

\* C5 witness: the second of two such calls, the first having reached the
\* projection, projected a non-empty goal cell set without a rebuild.
C5_Witness ==
    /\ call.op = "makePlan"
    /\ call.repeatOf = "projected"
    /\ call.pc = position_constraint_
    /\ call.projected
    /\ call.rebuilds = 0
    /\ call.goal_cells # <<>>

\* C6: a makePlan call whose start maps onto the costmap and whose goal
\* cell set comes out empty returns false without resize, setCostmap or plan.
C6_EmptyGoalSetSkipsSearch ==
    (call.op = "makePlan" /\ call.projected /\ call.goal_cells = <<>>)
        => /\ ~call.ret
           /\ ~call.synced
           /\ call.searches = <<>>
           /\ call.cell_path = <<>>
           /\ call.plan = <<>>

\* C6 witness: the projection ran on a non-empty region with the transform
\* available and kept no cell.
C6_Witness ==
    /\ call.op = "makePlan"
    /\ call.projected
    /\ ~call.projLookupFailed
    /\ goal_positions_in_constraint_frame_ # <<>>
    /\ call.goal_cells = <<>>
    /\ call.exit = "nogoal"

\* C7: a makePlan call before initialize returns false, leaves the caller's
\* vectors, the cached region and the stored constraint as they were, and
\* touches neither the costmap, the transform provider nor the primitive.
C7_UninitializedIsInert ==
    [][(IsMakePlan /\ ~initialized_)
          => /\ ~call'.ret
             /\ call'.plan = call'.plan_in
             /\ call'.goal_positions = call'.goals_in
             /\ CacheKept
             /\ ~call'.gridReads
             /\ Untouched(call')
             /\ planner_' = planner_]_vars

\* C7 witness: an uninitialized call was handed non-empty vectors.
C7_Witness ==
    /\ call.op = "makePlan"
    /\ ~initialized_
    /\ call.plan_in # <<>>
    /\ call.goals_in # <<>>

\* C8: a makePlan call with frame "" and constraint "" returns false and
\* leaves region and stored constraint alone, with no lookup and no search,
\* whatever the state of the planner.
C8_NothingSpecifiedKeepsCache ==
    [][(IsMakePlan /\ call'.pc.frame = "" /\ call'.pc.constraint = "")
          => /\ ~call'.ret
             /\ CacheKept
             /\ Untouched(call')]_vars

\* C8 witness: the sentinel came to an initialized planner holding a region.
C8_Witness ==
    /\ call.op = "makePlan"
    /\ call.pc = NoConstraint
    /\ initialized_
    /\ goal_positions_in_constraint_frame_ # <<>>
    /\ position_constraint_ # NoConstraint

\* C9: on an initialized planner a makePlan call with the sentinel
\* constraint returns false and leaves the caller's vectors as they were.
C9_NothingSpecifiedIsNoOp ==
    (call.op = "makePlan" /\ initialized_ /\ call.pc = NoConstraint)
        => /\ ~call.ret
           /\ call.plan = call.plan_in
           /\ call.goal_positions = call.goals_in

\* C10: a makePlan call whose start is off the costmap returns false and
\* leaves region and stored constraint alone, with no lookup, no rebuild
\* and no search, also when the constraint of the request is new.
C10_OffMapStartKeepsCache ==
    [][(IsMakePlan /\ ~WorldToMapOk(call'.start))
          => /\ ~call'.ret
             /\ CacheKept
             /\ Untouched(call')]_vars

\* C10 witness: a well-formed constraint other than the stored one came
\* with a start off the map, the transform being available.
C10_Witness ==
    /\ call.op = "makePlan"
    /\ call.exit = "offmap"
    /\ CeInit(call.pc.constraint)
    /\ call.pc # position_constraint_
    /\ goal_positions_in_constraint_frame_ # <<>>
    /\ tf.ok

\* Two cells are equal or neighbours (the eight-neighbourhood).
Adjacent(a, b) == Abs(a[1] - b[1]) <= 1 /\ Abs(a[2] - b[2]) <= 1

\* C11: when the forward search came back empty and the fallback search
\* did not, the cell path that is materialized starts at the cell of the
\* call's start and ends on, or next to, a cell of the call's goal cells.
C11_FallbackPathStartToGoal ==
    (call.op = "makePlan" /\ Len(call.searches) = 2 /\ call.cell_path # <<>>)
        => /\ call.cell_path[1] = WorldToMap(call.start)
           /\ \E k \in 1..Len(call.goal_cells) :
                 Adjacent(call.cell_path[Len(call.cell_path)], call.goal_cells[k])

\* C11 witness: the fallback found a path of several cells, from a seed
\* that is not the start cell.
C11_Witness ==
    /\ call.op = "makePlan"
    /\ Len(call.searches) = 2
    /\ Len(call.cell_path) >= 2
    /\ call.searches[2].start # WorldToMap(call.start)
    /\ call.ret


\* Both searches of the call ran and both came back empty.
BothSearchesEmpty ==
    /\ Len(call.searches) = 2
    /\ call.searches[1].result = <<>>
    /\ call.searches[2].result = <<>>

\* C12: a makePlan call on an initialized planner returns true exactly when
\* the plan it hands back is non-empty, and then the plan has one pose per
\* cell of the final cell path, at that cell's centre and in the same
\* order; when both searches came back empty it returns false with an
\* empty plan.
C12_ReturnTellsPlan ==
    (call.op = "makePlan" /\ call.exit # "uninit")
        => /\ call.ret <=> (call.plan # <<>>)
           /\ BothSearchesEmpty => (~call.ret /\ call.plan = <<>>)
           /\ call.ret =>
                /\ Len(call.plan) = Len(call.cell_path)
                /\ \A i \in 1..Len(call.plan) :
                      <<call.plan[i].x, call.plan[i].y>> = MapToWorld(call.cell_path[i])

\* C12 witness: the forward and the fallback search both came back empty
\* although goal cells existed.
C12_Witness ==
    /\ call.op = "makePlan"
    /\ BothSearchesEmpty
    /\ call.goal_cells # <<>>
    /\ call.exit = "noplan"


\* The poses of the path checked that map onto the costmap and into a cell
\* of lethal or inscribed cost.
ObstaclePoses ==
    {i \in 1..Len(call.plan_in) :
        /\ WorldToMapOk(<<call.plan_in[i].x, call.plan_in[i].y>>)
        /\ ~Passable(WorldToMap(<<call.plan_in[i].x, call.plan_in[i].y>>))}

\* C13: on a planner that holds a costmap, checkPlan returns false exactly
\* when some pose of the path maps onto the costmap and into a cell of
\* lethal or inscribed cost; poses off the costmap are skipped, so the empty
\* path and a path wholly off the costmap give true.
C13_CheckPlanFalseIffObstacle ==
    (call.op = "checkPlan" /\ initialized_)
        => /\ ~call.ret <=> (ObstaclePoses # {})
           /\ (\A i \in 1..Len(call.plan_in) :
                  ~WorldToMapOk(<<call.plan_in[i].x, call.plan_in[i].y>>)) => call.ret

\* C13 witness: a path whose first pose is off the costmap and whose second
\* pose lies in an obstacle cell was found invalid.
C13_Witness ==
    /\ call.op = "checkPlan"
    /\ initialized_
    /\ Len(call.plan_in) = 2
    /\ ~WorldToMapOk(<<call.plan_in[1].x, call.plan_in[1].y>>)
    /\ ObstaclePoses = {2}
    /\ ~call.ret


\* The size of the costmap, as the search primitive holds it after a resize.
CostmapSize == [nx |-> costmap.sx, ny |-> costmap.sy]

\* C14: in every makePlan call that invokes the search primitive, resize
\* and setCostmap were called before, in the same call, and every
\* invocation, forward and fallback, ran with the costmap's current width
\* and height, whatever size the primitive had when the call began.
C14_SearchRunsOnCurrentSize ==
    (call.op = "makePlan" /\ call.searches # <<>>)
        => /\ call.synced
           /\ planner_ = CostmapSize
           /\ \A k \in 1..Len(call.searches) : call.searches[k].dims = CostmapSize

\* C14 witness: both searches ran in a call that found the primitive with
\* the size of an earlier costmap.
C14_Witness ==
    /\ call.op = "makePlan"
    /\ Len(call.searches) = 2
    /\ call.resized


\* C15: the goal cells handed to the forward search are the call's goal
\* cells; each lies inside the current costmap and has neither lethal nor
\* inscribed cost; and the goal positions returned to the caller are as
\* many, the k-th one being a world point of the k-th goal cell.
C15_GoalCellsValidAndAligned ==
    (call.op = "makePlan" /\ call.searches # <<>>)
        => /\ call.searches[1].goals = call.goal_cells
           /\ \A k \in 1..Len(call.goal_cells) :
                 /\ call.goal_cells[k] \in CellsOf(costmap.sx, costmap.sy)
                 /\ Passable(call.goal_cells[k])
           /\ Len(call.goal_positions) = Len(call.goal_cells)
           /\ \A k \in 1..Len(call.goal_positions) :
                 /\ WorldToMapOk(call.goal_positions[k])
                 /\ WorldToMap(call.goal_positions[k]) = call.goal_cells[k]

\* C15 witness: a search got several goal cells, fewer than the cached
\* region has points, on a costmap with an obstacle cell.
C15_Witness ==
    /\ call.op = "makePlan"
    /\ call.searches # <<>>
    /\ Len(call.goal_cells) >= 2
    /\ Len(call.goal_cells) < Len(goal_positions_in_constraint_frame_)
    /\ \E cell \in CellsOf(costmap.sx, costmap.sy) : ~Passable(cell)


\* The region and the stored constraint as the region step (lines 47-55)
\* leaves them, told from the call record: rebuilt and stored, cleared by
\* a failed rebuild, or as before the call.
RegionAfterStep ==
    IF call'.rebuilds = 0 THEN goal_positions_in_constraint_frame_
    ELSE IF call'.exit = "rebuild" THEN <<>>
    ELSE SweepRegion(call'.pc.constraint)

StoredAfterStep ==
    IF call'.rebuilds = 1 /\ call'.exit # "rebuild" THEN call'.pc ELSE position_constraint_

\* C16: the cached region and the stored constraint change only in a
\* makePlan call that passed the precondition tests, whose constraint
\* differs from the stored one and that ran the rebuild; the stored
\* constraint changes only to the request's constraint and only when the
\* rebuild succeeded; at the end of every makePlan call both are as the
\* region step left them; checkPlan changes neither.
C16_CacheChangesOnlyInRegionStep ==
    [][/\ ~CacheKept =>
            /\ IsMakePlan
            /\ call'.exit \notin {"uninit", "nothing", "offmap"}
            /\ ConstraintChanged(call'.pc)
            /\ call'.rebuilds = 1
       /\ position_constraint_' # position_constraint_ =>
            /\ position_constraint_' = call'.pc
            /\ call'.exit # "rebuild"
       /\ IsMakePlan =>
            /\ goal_positions_in_constraint_frame_' = RegionAfterStep
            /\ position_constraint_' = StoredAfterStep
       /\ call'.op = "checkPlan" => CacheKept]_vars

\* C16 witness: a call rebuilt the region for a new constraint, stored the
\* constraint, projected fewer points than the region holds and went on to
\* a successful search, the cache still holding the whole region.
C16_Witness ==
    /\ call.op = "makePlan"
    /\ call.rebuilds = 1
    /\ call.ret
    /\ position_constraint_ = call.pc
    /\ goal_positions_in_constraint_frame_ = SweepRegion(call.pc.constraint)
    /\ Len(call.goal_positions) < Len(goal_positions_in_constraint_frame_)


\* C17: a makePlan call invokes the search primitive at most twice.  The
\* first invocation is the forward one, from the start cell.  A second one
\* happens only when the first came back empty; it starts from the goal
\* cell at (0-based) index floor(n/2), has the start cell as its only goal
\* and runs in reversed mode, and the cell path materialized is its result
\* reversed.  When the first invocation came back non-empty it is the only
\* one and its result is materialized as it is.
C17_FallbackOnceFromMidpoint ==
    (call.op = "makePlan" /\ call.searches # <<>>)
        => LET s == call.searches
               n == Len(call.goal_cells)
           IN  /\ Len(s) <= 2
               /\ ~s[1].reversed
               /\ s[1].start = WorldToMap(call.start)
               /\ Len(s) = 2 =>
                    /\ s[1].result = <<>>
                    /\ s[2].start = call.goal_cells[(n \div 2) + 1]
                    /\ s[2].goals = <<WorldToMap(call.start)>>
                    /\ s[2].reversed
                    /\ call.cell_path = Reverse(s[2].result)
               /\ s[1].result # <<>> =>
                    /\ Len(s) = 1
                    /\ call.cell_path = s[1].result

\* C17 witness: with three goal cells the forward search came back empty
\* and the fallback, started from the second of them, found a path of
\* several cells.
C17_Witness ==
    /\ call.op = "makePlan"
    /\ Len(call.goal_cells) = 3
    /\ Len(call.searches) = 2
    /\ call.searches[2].start = call.goal_cells[2]
    /\ Len(call.searches[2].result) >= 2
    /\ call.cell_path[1] = WorldToMap(call.start)


\* The heading from cell a to cell b, as planToWorld computes it from the
\* two cell centres.
HeadingBetween(a, b) ==
    Heading(MapToWorld(b)[1] - MapToWorld(a)[1], MapToWorld(b)[2] - MapToWorld(a)[2])

\* Pose i of the plan and cell i of the path, counted from 0 as in the code.
PoseAt(i) == call.plan[i + 1]

CellAt(i) == call.cell_path[i + 1]

AllOrientationsDefault ==
    \A i \in 0..(Len(call.plan) - 1) : PoseAt(i).o = DefaultOrientation

\* C18, as claimed: with n the length of the cell path, every pose i with
\* i+5 < n has the heading from cell i to cell i+5; when n >= 5 every other
\* pose that has a predecessor has the orientation of pose i-1; and all
\* orientations are the default one only when n < 5.
C18_TailReusesFromLookahead ==
    call.op = "planToWorld"
        => LET n == Len(call.cell_path)
           IN  /\ \A i \in 0..(n - 1) :
                     i + LookAhead < n => PoseAt(i).o = HeadingBetween(CellAt(i), CellAt(i + LookAhead))
               /\ n >= LookAhead =>
                     \A i \in 1..(n - 1) : i + LookAhead >= n => PoseAt(i).o = PoseAt(i - 1).o
               /\ AllOrientationsDefault => n < LookAhead

\* C18, as the code has it: the plan has a pose at the centre of every
\* cell of the path; every pose i with i+5 < n has the heading from cell i
\* to cell i+5; when n > 5 every other pose has the orientation of pose
\* i-1, so that the tail shares the heading of pose n-6, and no orientation
\* is the default one; when n <= 5 all orientations are the default one.
C18_TailReusesBeyondLookahead ==
    call.op = "planToWorld"
        => LET n == Len(call.cell_path)
           IN  /\ Len(call.plan) = n
               /\ \A i \in 0..(n - 1) :
                     /\ <<PoseAt(i).x, PoseAt(i).y>> = MapToWorld(CellAt(i))
                     /\ i + LookAhead < n =>
                           PoseAt(i).o = HeadingBetween(CellAt(i), CellAt(i + LookAhead))
               /\ n > LookAhead =>
                     \A i \in 0..(n - 1) :
                        /\ i + LookAhead >= n =>
                              /\ i >= 1
                              /\ PoseAt(i).o = PoseAt(i - 1).o
                              /\ PoseAt(i).o = PoseAt(n - LookAhead - 1).o
                        /\ PoseAt(i).o # DefaultOrientation
               /\ n <= LookAhead => AllOrientationsDefault

\* C18 witness: a path of seven cells with a turn: the first two poses
\* have different headings and the five tail poses have the second one.
C18_Witness ==
    /\ call.op = "planToWorld"
    /\ Len(call.plan) = 7
    /\ PoseAt(0).o # PoseAt(1).o
    /\ \A i \in 2..6 : PoseAt(i).o = PoseAt(1).o


\* C19: as long as initialize has not been called, no makePlan or checkPlan
\* call reads the costmap or dereferences the unset costmap pointer.
C19_NoCostmapAccessBeforeInitialize ==
    ~initialized_ => (~call.gridReads /\ ~call.nullDeref)


====
